---- MODULE Spec2Model ----
(***************************************************************************)
(* The class-filtering inference-configuration transform of the "detect"   *)
(* binary (src/detect/src/main.rs): create_filtered_config and the part of *)
(* main that calls it.  Texts are sequences of one-character strings, the  *)
(* filesystem maps the two paths the code touches to files, and every      *)
(* process is one run of main.                                             *)
(***************************************************************************)
EXTENDS Integers, Sequences, FiniteSets, TLC

\* ------------------------------------------------------------- bounds

\* Most lines an enumerated base configuration has.
MaxLines == 3

\* Most bytes of one write_all that short writes may transfer before the
\* write call that transfers the rest (or fails).
MaxPartial == 1

\* ------------------------------------------------------- text helpers

LF == "\n"
CR == "\r"

\* char::is_whitespace, on the characters the model uses.
IsWhitespace(c) == c \in {" ", "\t", LF, CR}

RECURSIVE TrimStart(_)
TrimStart(s) ==
    IF s # <<>> /\ IsWhitespace(Head(s)) THEN TrimStart(Tail(s)) ELSE s

RECURSIVE TrimEnd(_)
TrimEnd(s) ==
    IF s # <<>> /\ IsWhitespace(s[Len(s)])
    THEN TrimEnd(SubSeq(s, 1, Len(s) - 1))
    ELSE s

\* str::trim
Trim(s) == TrimEnd(TrimStart(s))

\* str::starts_with
StartsWith(s, prefix) ==
    /\ Len(s) >= Len(prefix)
    /\ SubSeq(s, 1, Len(prefix)) = prefix

\* One line of str::lines: the terminating "\n" is gone already, and one
\* "\r" before it goes as well.
StripCR(line) ==
    IF line # <<>> /\ line[Len(line)] = CR
    THEN SubSeq(line, 1, Len(line) - 1)
    ELSE line

\* str::lines: split at "\n" or "\r\n"; the last line needs no terminator,
\* and a bare "\r" that no "\n" follows stays in its line.
RECURSIVE Lines(_)
Lines(text) ==
    LET ends == {i \in 1..Len(text) : text[i] = LF}
    IN  IF text = <<>> THEN <<>>
        ELSE IF ends = {} THEN <<text>>
        ELSE LET i == CHOOSE e \in ends : \A k \in ends : e <= k
             IN  <<StripCR(SubSeq(text, 1, i - 1))>>
                     \o Lines(SubSeq(text, i + 1, Len(text)))

DigitChars == <<"0", "1", "2", "3", "4", "5", "6", "7", "8", "9">>

RECURSIVE Digits(_)
Digits(n) ==
    IF n < 10
    THEN <<DigitChars[n + 1]>>
    ELSE Append(Digits(n \div 10), DigitChars[(n % 10) + 1])

\* format!("{}", target_class_id) of an i32.
I32ToString(n) == IF n < 0 THEN <<"-">> \o Digits(-n) ELSE Digits(n)

\* ------------------------------------------- create_filtered_config

AllHeader ==
    <<"[", "c", "l", "a", "s", "s", "-", "a", "t", "t", "r", "s", "-",
      "a", "l", "l", "]">>

ClassHeaderPrefix ==
    <<"[", "c", "l", "a", "s", "s", "-", "a", "t", "t", "r", "s", "-">>

ThresholdKey ==
    <<"p", "r", "e", "-", "c", "l", "u", "s", "t", "e", "r", "-",
      "t", "h", "r", "e", "s", "h", "o", "l", "d", "=">>

PermissiveLine == ThresholdKey \o <<"0", ".", "2", "5">>

RestrictiveLine == ThresholdKey \o <<"1", ".", "0">>

temp_config_path == "/tmp/config_infer_filtered.txt"

\* IsAllHeader with the header compared for equality.
IsAllHeader_Exact(line) == Trim(line) = AllHeader

\* IsAllHeader comparing with a header line that still has its "\n".
IsAllHeader_WithNewline(line) == line = AllHeader \o <<LF>>

\* The condition of the first branch of the scan.
IsAllHeader(line) == StartsWith(Trim(line), AllHeader)

\* OpensSection without the trim.
OpensSection_Untrimmed(line) == StartsWith(line, <<"[">>)

\* The second condition of the scan's else-if branch.
OpensSection(line) == StartsWith(Trim(line), <<"[">>)

\* ScanStep copying the trimmed line.
ScanStep_Trimmed(in_attrs, config, line) ==
    IF IsAllHeader(line)
    THEN [in_class_attrs |-> TRUE, new_config |-> config]
    ELSE LET still == in_attrs /\ ~OpensSection(line)
         IN  [in_class_attrs |-> still,
              new_config |-> IF still THEN config
                             ELSE config \o Trim(line) \o <<LF>>]

\* ScanStep that clears the flag at the next header but copies only from the
\* line after it.
ScanStep_BoundaryDropped(in_attrs, config, line) ==
    IF IsAllHeader(line)
    THEN [in_class_attrs |-> TRUE, new_config |-> config]
    ELSE [in_class_attrs |-> in_attrs /\ ~OpensSection(line),
          new_config |-> IF in_attrs THEN config ELSE config \o line \o <<LF>>]

\* ScanStep with its two tests in the other order: inside the removal any
\* line that opens a section ends it, an all-classes header as well.
ScanStep_SectionTestFirst(in_attrs, config, line) ==
    IF in_attrs /\ OpensSection(line)
    THEN [in_class_attrs |-> FALSE, new_config |-> config \o line \o <<LF>>]
    ELSE IF IsAllHeader(line)
    THEN [in_class_attrs |-> TRUE, new_config |-> config]
    ELSE [in_class_attrs |-> in_attrs,
          new_config |-> IF in_attrs THEN config ELSE config \o line \o <<LF>>]

\* One iteration of the scan loop over `line`.
ScanStep(in_attrs, config, line) ==
    IF IsAllHeader(line)
    THEN [in_class_attrs |-> TRUE, new_config |-> config]
    ELSE LET still == in_attrs /\ ~OpensSection(line)
         IN  [in_class_attrs |-> still,
              new_config |-> IF still THEN config ELSE config \o line \o <<LF>>]

\* The header line of the per-class section.
ClassHeader(target_class_id) ==
    ClassHeaderPrefix \o I32ToString(target_class_id) \o <<"]">>

\* Appended with the two sections in the other order.
Appended_Swapped(target_class_id) ==
    <<LF>> \o AllHeader \o <<LF>>
        \o RestrictiveLine \o <<LF>>
        \o <<LF>> \o ClassHeader(target_class_id) \o <<LF>>
        \o PermissiveLine \o <<LF>>

\* The four push_str calls after the loop.
Appended(target_class_id) ==
    <<LF>> \o ClassHeader(target_class_id) \o <<LF>>
        \o PermissiveLine \o <<LF>>
        \o <<LF>> \o AllHeader \o <<LF>>
        \o RestrictiveLine \o <<LF>>

RECURSIVE ScanAll(_, _, _)
ScanAll(lines, in_attrs, config) ==
    IF lines = <<>>
    THEN config
    ELSE LET r == ScanStep(in_attrs, config, Head(lines))
         IN  ScanAll(Tail(lines), r.in_class_attrs, r.new_config)

\* The buffer create_filtered_config assembles from a base text.
FilteredText(content, target_class_id) ==
    ScanAll(Lines(content), FALSE, <<>>) \o Appended(target_class_id)

\* ------------------------------------------------------ filesystem

NoFile == [exists |-> FALSE, data |-> <<>>]

File(text) == [exists |-> TRUE, data |-> text]

\* fs::read_to_string
ReadToString(file) == [ok |-> file.exists, val |-> file.data]

\* File::create that opens the file without truncating it.
Created_NoTruncate(old) == File(old.data)

\* fs::File::create on an existing or missing file: it is there and empty.
Created(old) == File(<<>>)

\* The byte of a file at offset i (from 0) that no write has filled.
NUL == "\\0"

\* write(2) of `data` at offset `pos` of a file holding `old`.
WriteAt(old, pos, data) ==
    LET end == pos + Len(data)
        n   == IF end > Len(old) THEN end ELSE Len(old)
    IN  [i \in 1..n |->
            IF i > pos /\ i <= end THEN data[i - pos]
            ELSE IF i <= Len(old) THEN old[i]
            ELSE NUL]

\* ------------------------------------------------------------ main

None == [is_some |-> FALSE, val |-> 0]

Some(v) == [is_some |-> TRUE, val |-> v]

\* Option::or
OptionOr(a, b) == IF a.is_some THEN a ELSE b

model_config ==
    "/opt/nvidia/deepstream/deepstream/samples/configs/deepstream-app/config_infer_primary.txt"

Ok(path) == [tag |-> "Ok", val |-> path]

Err(what) == [tag |-> "Err", val |-> what]

NoResult == [tag |-> "-", val |-> ""]

\* OnFilterResult that hands over the output path whatever the call returned.
OnFilterResult_AlwaysFiltered(res, original) == temp_config_path

\* The match on create_filtered_config's result.
OnFilterResult(res, original) ==
    IF res.tag = "Ok" THEN res.val ELSE original

\* ----------------------------------------------------------- inputs

ClassIds == {2, 10}

OptionalIds == {None} \cup {Some(n) : n \in ClassIds}

PaddedAllHeader == <<" ">> \o AllHeader \o <<CR>>

AllHeaderJunk == AllHeader \o <<"x">>

\* The header of another section: padded, and the all-classes header but for
\* the case of one letter.
OtherHeader ==
    <<" ", "[", "C", "l", "a", "s", "s", "-", "a", "t", "t", "r", "s", "-",
      "a", "l", "l", "]">>

KeyValue == <<"k", "=", "1">>

KeyValueCR == <<" ", "k", "=", "2", CR>>

LineBodies ==
    {AllHeader, PaddedAllHeader, AllHeaderJunk, OtherHeader, KeyValue,
     KeyValueCR}

RECURSIVE TerminatedTexts(_)
TerminatedTexts(n) ==
    IF n = 0
    THEN {<<>>}
    ELSE LET prev == TerminatedTexts(n - 1)
         IN  prev \cup {t \o b \o <<LF>> : t \in prev, b \in LineBodies}

\* The base configurations: up to n lines, the last one with or without its
\* line terminator.
Docs(n) ==
    LET full == TerminatedTexts(n)
    IN  full \cup {SubSeq(t, 1, Len(t) - 1) : t \in full \ {<<>>}}

\* A file that an earlier successful call left at the output path.
OldFiltered == FilteredText(<<>>, 2)

RaceDocs == {<<>>, AllHeader \o <<LF>> \o KeyValue \o <<LF>> \o OtherHeader \o <<LF>>}

\* ------------------------------------------------------------ state

VARIABLES
    fs,               \* path -> file
    pc,               \* process -> where it is in main
    filter_class_id,  \* process -> Option<i32>
    config_content,   \* process -> the text read from the base configuration
    line_iter,        \* process -> the lines the scan has not yet seen
    new_config,       \* process -> the buffer assembled so far
    in_class_attrs,   \* process -> the scan flag
    file_pos,         \* process -> offset of its open output file
    result,           \* process -> what create_filtered_config returned
    final_config,     \* process -> the path handed to the inference element
    file_at_call,     \* process -> the output file as it was when the call began
    last_writer       \* the process whose write call reached the output file last

vars ==
    <<fs, pc, filter_class_id, config_content, line_iter, new_config,
      in_class_attrs, file_pos, result, final_config, file_at_call,
      last_writer>>

\* What one call of create_filtered_config works on.
frame == <<config_content, line_iter, new_config, in_class_attrs, file_pos>>

Procs == DOMAIN pc

InitProcs(P) ==
    /\ pc = [p \in P |-> "resolve"]
    /\ filter_class_id = [p \in P |-> None]
    /\ config_content = [p \in P |-> <<>>]
    /\ line_iter = [p \in P |-> <<>>]
    /\ new_config = [p \in P |-> <<>>]
    /\ in_class_attrs = [p \in P |-> FALSE]
    /\ file_pos = [p \in P |-> 0]
    /\ result = [p \in P |-> NoResult]
    /\ final_config = [p \in P |-> ""]
    /\ file_at_call = [p \in P |-> NoFile]
    /\ last_writer = 0

Init ==
    /\ \E base \in {NoFile} \cup {File(d) : d \in Docs(MaxLines)},
          out \in {NoFile, File(OldFiltered)} :
          fs = [path \in {model_config, temp_config_path} |->
                   IF path = model_config THEN base ELSE out]
    /\ InitProcs({1})

InitRace ==
    /\ \E base \in {File(d) : d \in RaceDocs} :
          fs = [path \in {model_config, temp_config_path} |->
                   IF path = model_config THEN base ELSE NoFile]
    /\ InitProcs({1, 2})

\* main, lines 102-138: the class id is resolved; without one the original
\* configuration is used, with one create_filtered_config is called.
Resolve(p) ==
    /\ pc[p] = "resolve"
    /\ \E from_env \in OptionalIds, from_labels \in OptionalIds :
          LET id == OptionOr(from_env, from_labels)
          IN  /\ filter_class_id' = [filter_class_id EXCEPT ![p] = id]
              /\ IF id.is_some
                 THEN /\ pc' = [pc EXCEPT ![p] = "read"]
                      /\ file_at_call' =
                            [file_at_call EXCEPT ![p] = fs[temp_config_path]]
                      /\ UNCHANGED final_config
                 ELSE /\ pc' = [pc EXCEPT ![p] = "built"]
                      /\ final_config' = [final_config EXCEPT ![p] = model_config]
                      /\ UNCHANGED file_at_call
    /\ UNCHANGED <<fs, frame, result, last_writer>>

\* AfterRead that goes on with an empty text when the read failed.
AfterRead_Continue(ok) == "scan"

\* Where create_filtered_config goes on after read_to_string()?.
AfterRead(ok) == IF ok THEN "scan" ELSE "return"

\* Lines 10 to 17.
ReadBase(p) ==
    /\ pc[p] = "read"
    /\ LET r == ReadToString(fs[model_config])
       IN  /\ config_content' = [config_content EXCEPT ![p] = r.val]
           /\ line_iter' = [line_iter EXCEPT ![p] = Lines(r.val)]
           /\ pc' = [pc EXCEPT ![p] = AfterRead(r.ok)]
           /\ result' = [result EXCEPT ![p] =
                            IF AfterRead(r.ok) = "return"
                            THEN Err("read") ELSE NoResult]
    /\ new_config' = [new_config EXCEPT ![p] = <<>>]
    /\ in_class_attrs' = [in_class_attrs EXCEPT ![p] = FALSE]
    /\ UNCHANGED <<fs, filter_class_id, file_pos, final_config, file_at_call,
                   last_writer>>

\* One iteration of the loop of lines 18-30.
ScanLine(p) ==
    /\ pc[p] = "scan"
    /\ line_iter[p] # <<>>
    /\ LET r == ScanStep(in_class_attrs[p], new_config[p], Head(line_iter[p]))
       IN  /\ in_class_attrs' = [in_class_attrs EXCEPT ![p] = r.in_class_attrs]
           /\ new_config' = [new_config EXCEPT ![p] = r.new_config]
    /\ line_iter' = [line_iter EXCEPT ![p] = Tail(line_iter[p])]
    /\ UNCHANGED <<fs, pc, filter_class_id, config_content, file_pos, result,
                   final_config, file_at_call, last_writer>>

\* The loop ends; lines 33-36.
AppendSections(p) ==
    /\ pc[p] = "scan"
    /\ line_iter[p] = <<>>
    /\ new_config' = [new_config EXCEPT ![p] =
                         new_config[p] \o Appended(filter_class_id[p].val)]
    /\ pc' = [pc EXCEPT ![p] = "create"]
    /\ UNCHANGED <<fs, filter_class_id, config_content, line_iter,
                   in_class_attrs, file_pos, result, final_config,
                   file_at_call, last_writer>>

\* Line 39, File::create succeeds: the file is there, empty, open at offset 0.
CreateFile(p) ==
    /\ pc[p] = "create"
    /\ fs' = [fs EXCEPT ![temp_config_path] = Created(fs[temp_config_path])]
    /\ file_pos' = [file_pos EXCEPT ![p] = 0]
    /\ pc' = [pc EXCEPT ![p] = "write"]
    /\ UNCHANGED <<filter_class_id, config_content, line_iter, new_config,
                   in_class_attrs, result, final_config, file_at_call,
                   last_writer>>

\* Line 39, File::create fails (permission denied, ...): nothing is changed.
CreateFails(p) ==
    /\ pc[p] = "create"
    /\ result' = [result EXCEPT ![p] = Err("create")]
    /\ pc' = [pc EXCEPT ![p] = "return"]
    /\ UNCHANGED <<fs, filter_class_id, frame, final_config, file_at_call,
                   last_writer>>

\* The byte counts one write call of write_all may transfer at offset pos of a
\* buffer of len bytes: all that is left, or a short count.
WriteCounts(pos, len) ==
    {len - pos} \cup {n \in 1..MaxPartial : pos + n <= MaxPartial /\ pos + n < len}

\* Line 40: one write call of write_all's loop transfers n bytes; with the
\* last byte written the function returns Ok(temp_config_path).
WriteSome(p) ==
    /\ pc[p] = "write"
    /\ \E n \in WriteCounts(file_pos[p], Len(new_config[p])) :
          LET pos  == file_pos[p]
              data == SubSeq(new_config[p], pos + 1, pos + n)
              done == pos + n = Len(new_config[p])
          IN  /\ fs' = [fs EXCEPT ![temp_config_path] =
                           File(WriteAt(fs[temp_config_path].data, pos, data))]
              /\ file_pos' = [file_pos EXCEPT ![p] = pos + n]
              /\ pc' = [pc EXCEPT ![p] = IF done THEN "return" ELSE "write"]
              /\ result' = [result EXCEPT ![p] =
                               IF done THEN Ok(temp_config_path) ELSE NoResult]
    /\ last_writer' = p
    /\ UNCHANGED <<filter_class_id, config_content, line_iter, new_config,
                   in_class_attrs, final_config, file_at_call>>

\* Line 40: a write call fails (filesystem full, ...): what earlier write
\* calls transferred stays in the file.
WriteFails(p) ==
    /\ pc[p] = "write"
    /\ result' = [result EXCEPT ![p] = Err("write")]
    /\ pc' = [pc EXCEPT ![p] = "return"]
    /\ UNCHANGED <<fs, filter_class_id, frame, final_config, file_at_call,
                   last_writer>>

\* Lines 124-133: the match on the call's result.
UseResult(p) ==
    /\ pc[p] = "return"
    /\ final_config' = [final_config EXCEPT ![p] =
                           OnFilterResult(result[p], model_config)]
    /\ pc' = [pc EXCEPT ![p] = "built"]
    /\ UNCHANGED <<fs, filter_class_id, frame, result, file_at_call,
                   last_writer>>

Next ==
    \/ \E p \in Procs : Resolve(p)
    \/ \E p \in Procs : ReadBase(p)
    \/ \E p \in Procs : ScanLine(p)
    \/ \E p \in Procs : AppendSections(p)
    \/ \E p \in Procs : CreateFile(p)
    \/ \E p \in Procs : CreateFails(p)
    \/ \E p \in Procs : WriteSome(p)
    \/ \E p \in Procs : WriteFails(p)
    \/ \E p \in Procs : UseResult(p)

\* One run of main.
Spec == Init /\ [][Next]_vars

\* Two runs of main on one host, at the same time.
SpecRace == InitRace /\ [][Next]_vars

\* ----------------------------------------------------- properties

\* The call of process p has assembled its whole buffer (line 36 is behind it).
Assembled(p) ==
    \/ pc[p] \in {"create", "write"}
    \/ /\ pc[p] \in {"return", "built"}
       /\ filter_class_id[p].is_some
       /\ result[p] # Err("read")

\* The call of process p has returned Ok.
ReturnedOk(p) == pc[p] \in {"return", "built"} /\ result[p].tag = "Ok"

RECURSIVE JoinLines(_)
JoinLines(ls) ==
    IF ls = <<>> THEN <<>> ELSE Head(ls) \o <<LF>> \o JoinLines(Tail(ls))

\* The line is the all-classes header and nothing else.
ExactHeader(line) == Trim(line) = AllHeader

\* The line begins, after trimming, with the all-classes header.
PrefixHeader(line) == StartsWith(Trim(line), AllHeader)

\* The line begins, after trimming, with "[".
Bracket(line) == StartsWith(Trim(line), <<"[">>)

\* A text that str::lines and "\n" after every line give back unchanged.
NewlineClean(t) ==
    /\ t = <<>> \/ t[Len(t)] = LF
    /\ \A i \in 1..(Len(t) - 1) : ~(t[i] = CR /\ t[i + 1] = LF)

\* The lines of the input of process p, and how many the scan has seen.
InputLines(p) == Lines(config_content[p])

Seen(p) == Len(InputLines(p)) - Len(line_iter[p])

\* Process p takes one iteration of the scan loop in this step.
ScanTakes(p) ==
    /\ pc[p] = "scan"
    /\ line_iter[p] # <<>>
    /\ line_iter'[p] = Tail(line_iter[p])

\* C1 as stated: with no line that is the all-classes header, the buffer is
\* the input text followed by the two appended sections.
C1_PassThroughVerbatim ==
    \A p \in Procs :
        (/\ Assembled(p)
         /\ \A i \in 1..Len(InputLines(p)) : ~ExactHeader(InputLines(p)[i]))
        => new_config[p] =
               config_content[p] \o Appended(filter_class_id[p].val)

\* C1 amended: with no line that begins, trimmed, with the all-classes header,
\* the buffer is every line of the input (as str::lines splits it) followed by
\* "\n", in order, then the two appended sections; it is the input text itself
\* followed by them exactly when the input is empty or ends with "\n" and holds
\* no "\r\n".
C1_PassThroughLines ==
    \A p \in Procs :
        (/\ Assembled(p)
         /\ \A i \in 1..Len(InputLines(p)) : ~PrefixHeader(InputLines(p)[i]))
        => /\ new_config[p] =
                  JoinLines(InputLines(p)) \o Appended(filter_class_id[p].val)
           /\ (new_config[p] =
                  config_content[p] \o Appended(filter_class_id[p].val))
              <=> NewlineClean(config_content[p])

\* C1's case: a pass-through input of two or more lines whose text str::lines
\* does not give back (no final "\n", or a "\r\n"), filtered and written.
C1_Witness ==
    /\ pc[1] = "built"
    /\ result[1].tag = "Ok"
    /\ Len(InputLines(1)) >= 2
    /\ \A i \in 1..Len(InputLines(1)) : ~PrefixHeader(InputLines(1)[i])
    /\ ~NewlineClean(config_content[1])

\* Where the section that starts at line i of ls ends: the next line after i
\* that begins with "[", or one past the last line.
SectionEnd(ls, i) ==
    LET next == {j \in (i + 1)..Len(ls) : Bracket(ls[j])}
    IN  IF next = {} THEN Len(ls) + 1
        ELSE CHOOSE j \in next : \A k \in next : j <= k

\* ls without the section that starts at line i, every line followed by "\n".
WithoutSection(ls, i) ==
    JoinLines(SubSeq(ls, 1, i - 1))
        \o JoinLines(SubSeq(ls, SectionEnd(ls, i), Len(ls)))

\* C2 as stated, the all-classes header being a line that is exactly the
\* token: with one such section, the buffer is the lines before it and the
\* lines from the next section header on, then the appended sections.
C2_SingleSectionExact ==
    \A p \in Procs :
        LET ls  == InputLines(p)
            hdr == {i \in 1..Len(ls) : ExactHeader(ls[i])}
        IN  (Assembled(p) /\ Cardinality(hdr) = 1)
            => new_config[p] =
                   WithoutSection(ls, CHOOSE i \in hdr : TRUE)
                       \o Appended(filter_class_id[p].val)

\* C2 amended: with exactly one line that begins, trimmed, with the
\* all-classes header, the buffer holds the lines before that line and the
\* lines from the next line that begins with "[" on, unchanged and in order,
\* none of the lines between, and then the appended sections.
C2_SingleSectionRemoved ==
    \A p \in Procs :
        LET ls  == InputLines(p)
            hdr == {i \in 1..Len(ls) : PrefixHeader(ls[i])}
        IN  (Assembled(p) /\ Cardinality(hdr) = 1)
            => new_config[p] =
                   WithoutSection(ls, CHOOSE i \in hdr : TRUE)
                       \o Appended(filter_class_id[p].val)

\* C2's case: one all-classes section with a key line in it and a section
\* after it, filtered.
C2_Witness ==
    LET ls  == InputLines(1)
        hdr == {i \in 1..Len(ls) : PrefixHeader(ls[i])}
    IN  /\ Assembled(1)
        /\ Cardinality(hdr) = 1
        /\ \E i \in hdr : SectionEnd(ls, i) > i + 1 /\ SectionEnd(ls, i) <= Len(ls)

\* C3 as stated: inside an all-classes section, any line that begins with "["
\* is copied and ends the removal.
C3_BoundaryAnyBracket ==
    [][\A p \in Procs :
          (ScanTakes(p) /\ in_class_attrs[p] /\ Bracket(Head(line_iter[p])))
          => /\ new_config'[p] = new_config[p] \o Head(line_iter[p]) \o <<LF>>
             /\ ~in_class_attrs'[p]]_vars

\* C3 amended: inside an all-classes section, a line that begins with "[" and
\* not with the all-classes header is copied and ends the removal; a line that
\* begins with the all-classes header is dropped and the removal goes on.
C3_BoundaryKept ==
    [][\A p \in Procs :
          (ScanTakes(p) /\ in_class_attrs[p] /\ Bracket(Head(line_iter[p])))
          => IF PrefixHeader(Head(line_iter[p]))
             THEN new_config'[p] = new_config[p] /\ in_class_attrs'[p]
             ELSE /\ new_config'[p] =
                        new_config[p] \o Head(line_iter[p]) \o <<LF>>
                  /\ ~in_class_attrs'[p]]_vars

\* C3's case: the scan has dropped an all-classes header and then copied the
\* header of the section right after it.
C3_Witness ==
    /\ pc[1] = "scan"
    /\ Seen(1) = 2
    /\ PrefixHeader(InputLines(1)[1])
    /\ Bracket(InputLines(1)[2])
    /\ ~PrefixHeader(InputLines(1)[2])
    /\ new_config[1] = InputLines(1)[2] \o <<LF>>
    /\ ~in_class_attrs[1]

\* The six lines that end every assembled buffer.
AppendedLines(n) ==
    << <<>>, ClassHeaderPrefix \o I32ToString(n) \o <<"]">>, PermissiveLine,
       <<>>, AllHeader, RestrictiveLine >>

\* C4: the buffer, and the file a successful call leaves, ends with the
\* per-class section of the target class (threshold 0.25) followed by the
\* all-classes section (threshold 1.0), and every all-classes header of the
\* output comes after the per-class header of the target class.
C4_ThresholdOrdering ==
    \A p \in Procs :
        LET ls == Lines(new_config[p])
            n  == Len(ls)
            id == filter_class_id[p].val
        IN  /\ Assembled(p) =>
                /\ n >= 6
                /\ new_config[p][Len(new_config[p])] = LF
                /\ SubSeq(ls, n - 5, n) = AppendedLines(id)
                /\ \A i \in 1..n :
                      PrefixHeader(ls[i]) =>
                          \E j \in 1..(i - 1) : ls[j] = AppendedLines(id)[2]
            /\ ReturnedOk(p) => fs[temp_config_path] = File(new_config[p])

\* C4's case: a base configuration with an all-classes section of its own,
\* filtered for class 10 and written.
C4_Witness ==
    /\ pc[1] = "built"
    /\ result[1].tag = "Ok"
    /\ filter_class_id[1] = Some(10)
    /\ \E i \in 1..Len(InputLines(1)) : ExactHeader(InputLines(1)[i])
    /\ fs[temp_config_path].data = new_config[1]

\* C5 as stated: a line is dropped and starts the removal exactly when,
\* trimmed, it equals the all-classes header; any other line that the removal
\* does not cover is copied.
C5_ExactHeaderMatch ==
    [][\A p \in Procs :
          ScanTakes(p) =>
              LET line == Head(line_iter[p])
              IN  /\ ExactHeader(line) =>
                        in_class_attrs'[p] /\ new_config'[p] = new_config[p]
                  /\ (~ExactHeader(line) /\ (~in_class_attrs[p] \/ Bracket(line)))
                        => /\ ~in_class_attrs'[p]
                           /\ new_config'[p] = new_config[p] \o line \o <<LF>>]_vars

\* C5 amended: a line is dropped and starts the removal exactly when, trimmed,
\* it begins with the all-classes header (case-sensitive), whatever follows
\* the header on the line; any other line that the removal does not cover is
\* copied.
C5_PrefixHeaderMatch ==
    [][\A p \in Procs :
          ScanTakes(p) =>
              LET line == Head(line_iter[p])
              IN  /\ PrefixHeader(line) =>
                        in_class_attrs'[p] /\ new_config'[p] = new_config[p]
                  /\ (~PrefixHeader(line) /\ (~in_class_attrs[p] \/ Bracket(line)))
                        => /\ ~in_class_attrs'[p]
                           /\ new_config'[p] = new_config[p] \o line \o <<LF>>]_vars

\* C5's case: the first line begins with the header and goes on after it; the
\* scan has dropped it and is in removal mode.
C5_Witness ==
    /\ pc[1] = "scan"
    /\ Seen(1) = 1
    /\ PrefixHeader(InputLines(1)[1])
    /\ ~ExactHeader(InputLines(1)[1])
    /\ in_class_attrs[1]
    /\ new_config[1] = <<>>

\* The last index of ls whose line is h (0: none).
LastIndexOf(ls, h) ==
    LET at == {i \in 1..Len(ls) : ls[i] = h}
    IN  IF at = {} THEN 0 ELSE CHOOSE i \in at : \A k \in at : k <= i

\* The lines of the section that starts at line i, its header left out.
SectionBody(ls, i) == SubSeq(ls, i + 1, SectionEnd(ls, i) - 1)

\* C6: filtering the assembled text again, and once more, for the same class
\* only takes the appended all-classes section away and appends the same two
\* sections: the last per-class section of the target class carries 0.25 and
\* nothing else, the one all-classes section is the last and carries 1.0, and
\* no pass brings in a line that the first output did not hold.
C6_RefilterKeepsThresholds ==
    \A p \in Procs :
        pc[p] = "create" =>
            LET id   == filter_class_id[p].val
                out1 == new_config[p]
                out2 == FilteredText(out1, id)
                out3 == FilteredText(out2, id)
                l1   == Lines(out1)
                l2   == Lines(out2)
                l3   == Lines(out3)
                hdr  == AppendedLines(id)[2]
                Active(ls) == SectionBody(ls, LastIndexOf(ls, hdr))
                AllAt(ls) == {i \in 1..Len(ls) : PrefixHeader(ls[i])}
            IN  /\ l2 = SubSeq(l1, 1, Len(l1) - 2) \o AppendedLines(id)
                /\ l3 = SubSeq(l2, 1, Len(l2) - 2) \o AppendedLines(id)
                /\ Active(l1) = <<PermissiveLine, <<>>>>
                /\ Active(l2) = Active(l1)
                /\ Active(l3) = Active(l1)
                /\ AllAt(l2) = {Len(l2) - 1} /\ l2[Len(l2)] = RestrictiveLine
                /\ AllAt(l3) = {Len(l3) - 1} /\ l3[Len(l3)] = RestrictiveLine
                /\ {l2[i] : i \in 1..Len(l2)} = {l1[i] : i \in 1..Len(l1)}
                /\ {l3[i] : i \in 1..Len(l3)} = {l1[i] : i \in 1..Len(l1)}

\* C6's case: a base configuration with an all-classes section and a line
\* ending in "\r", filtered; the output is the input of the second pass.
C6_Witness ==
    /\ pc[1] = "create"
    /\ \E i \in 1..Len(InputLines(1)) : PrefixHeader(InputLines(1)[i])
    /\ \E i \in 1..Len(new_config[1]) : new_config[1][i] = CR
    /\ FilteredText(new_config[1], filter_class_id[1].val) # new_config[1]

\* The call of process p has returned.
Returned(p) == pc[p] \in {"return", "built"} /\ filter_class_id[p].is_some

\* C7 as stated: a call that has returned either returned Ok and the output
\* file holds the whole buffer, or returned an error and the output file is
\* as it was when the call began.
C7_AllOrNothing ==
    \A p \in Procs :
        Returned(p) =>
            IF result[p].tag = "Ok"
            THEN fs[temp_config_path] = File(new_config[p])
            ELSE fs[temp_config_path] = file_at_call[p]

\* C9: the path handed on is the output path when a class id was resolved and
\* the call returned Ok, and the original model configuration path in every
\* other case; a call that has returned, with whatever result, is followed by
\* the rest of main.
C9_BestEffortFallback ==
    \A p \in Procs :
        /\ pc[p] = "built" =>
              /\ final_config[p] =
                    IF filter_class_id[p].is_some /\ result[p].tag = "Ok"
                    THEN temp_config_path ELSE model_config
              /\ final_config[p] # model_config =>
                    filter_class_id[p].is_some /\ result[p] = Ok(temp_config_path)
        /\ pc[p] = "return" => ENABLED UseResult(p)

\* C9's case: a class id was resolved, the call failed, and main went on with
\* the original configuration.
C9_Witness ==
    /\ pc[1] = "built"
    /\ filter_class_id[1].is_some
    /\ result[1].tag = "Err"
    /\ final_config[1] = model_config

\* C10: when the base configuration cannot be read, the call returns the read
\* error and the output file is as it was when the call began.
C10_ReadFailureLeavesOutput ==
    \A p \in Procs :
        (Returned(p) /\ ~fs[model_config].exists)
        => /\ result[p] = Err("read")
           /\ fs[temp_config_path] = file_at_call[p]

\* C10's case: the read failed with an earlier call's file at the output path.
C10_Witness ==
    /\ pc[1] = "built"
    /\ result[1] = Err("read")
    /\ file_at_call[1] = File(OldFiltered)
    /\ fs[temp_config_path] = File(OldFiltered)

\* Both calls of two concurrent runs, for different class ids, returned Ok.
BothOk ==
    /\ Procs = {1, 2}
    /\ ReturnedOk(1) /\ ReturnedOk(2)
    /\ filter_class_id[1] # filter_class_id[2]

\* C8 as stated: both calls return the same path, and with both finished the
\* file holds the whole output of the call whose write landed last.
C8_LastWriteWins ==
    BothOk =>
        /\ result[1] = result[2]
        /\ fs[temp_config_path] = File(new_config[last_writer])

\* The first n bytes of the buffer of process p.
Written(p, n) == SubSeq(new_config[p], 1, n)

\* C8 amended: both calls return the same path and their outputs differ, so
\* with both finished the file is not the output of at least one of them;
\* File::create leaves the file empty; and a call that writes while the other
\* has returned, into a file that holds just what it has written so far,
\* leaves its whole output there.  (With the creates and writes of the two
\* calls interleaved the file can be a mix of both outputs.)
C8_SharedPathRace ==
    /\ [](BothOk =>
            /\ result[1] = Ok(temp_config_path)
            /\ result[2] = Ok(temp_config_path)
            /\ \/ fs[temp_config_path].data # new_config[1]
               \/ fs[temp_config_path].data # new_config[2])
    /\ [][\A q \in Procs :
            /\ (pc[q] = "create" /\ pc'[q] = "write")
                  => fs'[temp_config_path] = File(<<>>)
            /\ (/\ pc[q] = "write"
                /\ \A p \in Procs \ {q} : pc[p] \in {"return", "built"}
                /\ fs[temp_config_path].data = Written(q, file_pos[q]))
                  => /\ fs'[temp_config_path].data = Written(q, file_pos'[q])
                     /\ result'[q].tag = "Ok"
                           => fs'[temp_config_path] = File(new_config[q])]_vars

\* C8's case: both calls returned Ok and the file is neither one's output.
C8_Witness ==
    /\ BothOk
    /\ fs[temp_config_path].data # new_config[1]
    /\ fs[temp_config_path].data # new_config[2]

\* Line i of ls is outside every all-classes section: it does not begin with
\* the all-classes header, and neither does the last line up to it that
\* begins with "[".
OutsideAllSections(ls, i) ==
    LET heads == {j \in 1..i : Bracket(ls[j])}
    IN  \/ heads = {}
        \/ ~PrefixHeader(ls[CHOOSE j \in heads : \A k \in heads : k <= j])

\* The lines of ls outside every all-classes section, each followed by "\n".
OutsideText(ls) ==
    LET F[i \in 0..Len(ls)] ==
            IF i = 0 THEN <<>>
            ELSE IF OutsideAllSections(ls, i) THEN F[i - 1] \o ls[i] \o <<LF>>
            ELSE F[i - 1]
    IN  F[Len(ls)]

\* The indices of the lines of ls that begin with the all-classes header.
AllHeadersOf(ls) == {i \in 1..Len(ls) : PrefixHeader(ls[i])}

\* C11: whatever all-classes sections the input holds, the assembled buffer
\* is the input's lines outside all of them followed by the appended
\* sections; its only line that begins with the all-classes header is the
\* appended one, the last but one line, which is the header itself, and the
\* one line after it is pre-cluster-threshold=1.0; while the scan runs the
\* buffer holds no such line at all.
C11_UniqueAllClassesSection ==
    \A p \in Procs :
        /\ pc[p] = "create" =>
              LET ls == Lines(new_config[p])
                  n  == Len(ls)
              IN  /\ new_config[p] =
                        OutsideText(InputLines(p))
                            \o Appended(filter_class_id[p].val)
                  /\ AllHeadersOf(ls) = {n - 1}
                  /\ ls[n - 1] = AllHeader
                  /\ ls[n] = RestrictiveLine
                  /\ new_config[p][Len(new_config[p])] = LF
        /\ pc[p] = "scan" => AllHeadersOf(Lines(new_config[p])) = {}

\* C11's case: an input with two all-classes sections and another section
\* between them, assembled.
C11_Witness ==
    /\ pc[1] = "create"
    /\ Cardinality(AllHeadersOf(InputLines(1))) >= 2
    /\ \E i \in 1..Len(InputLines(1)) :
          /\ Bracket(InputLines(1)[i]) /\ ~PrefixHeader(InputLines(1)[i])
          /\ \E j \in AllHeadersOf(InputLines(1)) : j < i
          /\ \E j \in AllHeadersOf(InputLines(1)) : j > i

====
